---- MODULE Spec2Model ----
(***************************************************************************)
(* Model of telegram-bot-main.py: the access gate, the command handlers,   *)
(* the provider adapters, the delivery loop of process_message and the two *)
(* SQLite tables.  Texts are sequences of one-character strings so that    *)
(* strip, split, replace, rfind and escape_markdown are computed the way   *)
(* Python computes them.                                                   *)
(***************************************************************************)
EXTENDS Integers, Sequences, FiniteSets, TLC

(* ------------------------------ bounds --------------------------------- *)
\* texts given to split_long_message have up to MaxLen characters, and its
\* max_length is 1..MaxWidth
MaxLen == 5
MaxWidth == 3
\* number of updates in a run whose provider may answer at length
MaxDeliverUpdates == 1
\* number of updates in a run that holds only provider requests and /balance
MaxLedgerUpdates == 4
\* user identifiers are 1..MaxUser, chat identifiers are 1..MaxChat
MaxUser == 2
MaxChat == 2
\* number of updates the polling loop receives in one run
MaxUpdates == 2
\* number of updates in a run that holds only /mode, /gpt and /claude
MaxModeUpdates == 3

(* -------------------------- Python str helpers ------------------------- *)
Whitespace == {" ", "\n", "\t", "\r"}

RECURSIVE LStrip(_)
LStrip(s) ==
    IF s = <<>> THEN s
    ELSE IF Head(s) \in Whitespace THEN LStrip(Tail(s)) ELSE s

RECURSIVE RStrip(_)
RStrip(s) ==
    IF s = <<>> THEN s
    ELSE IF s[Len(s)] \in Whitespace THEN RStrip(SubSeq(s, 1, Len(s) - 1)) ELSE s

Strip(s) == RStrip(LStrip(s))

\* str.split() without argument: runs of whitespace separate, no empty words
RECURSIVE WordsAcc(_, _, _)
WordsAcc(s, cur, acc) ==
    IF s = <<>> THEN (IF cur = <<>> THEN acc ELSE Append(acc, cur))
    ELSE IF Head(s) \in Whitespace
         THEN WordsAcc(Tail(s), <<>>, IF cur = <<>> THEN acc ELSE Append(acc, cur))
         ELSE WordsAcc(Tail(s), Append(cur, Head(s)), acc)

Words(s) == WordsAcc(s, <<>>, <<>>)

\* str.split(sep) with a one-character separator: empty fields are kept
RECURSIVE SplitAcc(_, _, _, _)
SplitAcc(s, sep, cur, acc) ==
    IF s = <<>> THEN Append(acc, cur)
    ELSE IF Head(s) = sep
         THEN SplitAcc(Tail(s), sep, <<>>, Append(acc, cur))
         ELSE SplitAcc(Tail(s), sep, Append(cur, Head(s)), acc)

SplitOn(s, sep) == SplitAcc(s, sep, <<>>, <<>>)

IsPrefix(p, s) == Len(p) <= Len(s) /\ SubSeq(s, 1, Len(p)) = p

\* str.replace(old, new): every non-overlapping occurrence, left to right
RECURSIVE Replace(_, _, _)
Replace(s, old, new) ==
    IF s = <<>> THEN <<>>
    ELSE IF IsPrefix(old, s)
         THEN new \o Replace(SubSeq(s, Len(old) + 1, Len(s)), old, new)
         ELSE <<Head(s)>> \o Replace(Tail(s), old, new)

\* str.rfind(ch, lo, hi): highest 0-based index in [lo, hi), or -1
RFind(s, ch, lo, hi) ==
    LET top == IF hi < Len(s) THEN hi ELSE Len(s)
        hits == {i \in lo..(top - 1) : s[i + 1] = ch}
    IN  IF hits = {} THEN -1 ELSE CHOOSE i \in hits : \A j \in hits : j <= i

\* sep.join(parts)
RECURSIVE Join(_, _)
Join(sep, parts) ==
    IF parts = <<>> THEN <<>>
    ELSE IF Len(parts) = 1 THEN parts[1]
    ELSE parts[1] \o sep \o Join(sep, Tail(parts))

Digits == <<"0", "1", "2", "3", "4", "5", "6", "7", "8", "9">>

\* the decimal text an f-string writes for a non-negative int
RECURSIVE IntToText(_)
IntToText(n) ==
    IF n < 10 THEN <<Digits[n + 1]>>
    ELSE IntToText(n \div 10) \o <<Digits[(n % 10) + 1]>>

RECURSIVE ParseNat(_)
ParseNat(s) ==
    IF s = <<>> THEN 0
    ELSE ParseNat(SubSeq(s, 1, Len(s) - 1)) * 10
         + (CHOOSE d \in 0..9 : Digits[d + 1] = s[Len(s)])

\* int(text) for a decimal literal with an optional sign
ParseInt(s) == IF Head(s) = "-" THEN 0 - ParseNat(Tail(s)) ELSE ParseNat(s)

InList(x, list) == \E i \in 1..Len(list) : list[i] = x

Range(list) == {list[i] : i \in 1..Len(list)}

(* ------------------------------ literals ------------------------------- *)
TxtStart == <<"/", "s", "t", "a", "r", "t">>
TxtHelp == <<"/", "h", "e", "l", "p">>
TxtGpt == <<"/", "g", "p", "t", " ", "h", "i">>
TxtClaude == <<"/", "c", "l", "a", "u", "d", "e", " ", "h", "i">>
TxtCompare == <<"/", "c", "o", "m", "p", "a", "r", "e", " ", "h", "i">>
TxtImage == <<"/", "i", "m", "a", "g", "e">>
TxtImageCat == <<"/", "i", "m", "a", "g", "e", " ", "c", "a", "t">>
TxtMode == <<"/", "m", "o", "d", "e">>
TxtModeReset == <<"/", "m", "o", "d", "e", " ", "r", "e", "s", "e", "t">>
TxtModeCreative ==
    <<"/", "m", "o", "d", "e", " ", "c", "r", "e", "a", "t", "i", "v", "e">>
TxtModeBrief == <<"/", "m", "o", "d", "e", " ", "b", "r", "i", "e", "f">>
TxtModeBogus == <<"/", "m", "o", "d", "e", " ", "b", "o", "g", "u", "s">>
TxtBalance == <<"/", "b", "a", "l", "a", "n", "c", "e">>
TxtRecentUsage ==
    <<"/", "r", "e", "c", "e", "n", "t", "_", "u", "s", "a", "g", "e">>
TxtFree == <<"h", "i">>

CmdGenerateImage ==
    <<"/", "g", "e", "n", "e", "r", "a", "t", "e", "_", "i", "m", "a", "g", "e">>
CmdImage == <<"/", "i", "m", "a", "g", "e">>
KwReset == <<"r", "e", "s", "e", "t">>
ModeCreative == <<"c", "r", "e", "a", "t", "i", "v", "e">>
NameGPT == <<"G", "P", "T">>
NameClaude == <<"C", "l", "a", "u", "d", "e">>
SaysSuffix == <<" ", "s", "a", "y", "s", ":", "*", "\n", "\n">>
PartWord == <<"P", "a", "r", "t", " ">>
PartColon == <<":", "\n", "\n">>
HumanMarker == <<"\n", "\n", "H", "u", "m", "a", "n", ":", " ">>
ErrWord == <<"E", "r", "r", "o", "r", " ", "o", "c", "c", "u", "r", "r", "e", "d">>
ErrWhile == <<" ", "w", "h", "i", "l", "e", " ", "p", "r", "o", "c", "e", "s", "s",
              "i", "n", "g", " ">>
ErrRequest == <<" ", "r", "e", "q", "u", "e", "s", "t", ".">>
GptErrorText == ErrWord \o ErrWhile \o NameGPT \o ErrRequest
ClaudeErrorText == ErrWord \o ErrWhile \o NameClaude \o ErrRequest
CmdGpt == <<"/", "g", "p", "t">>
CmdG == <<"/", "g">>
CmdClaude == <<"/", "c", "l", "a", "u", "d", "e">>
CmdC == <<"/", "c">>
CmdCompare == <<"/", "c", "o", "m", "p", "a", "r", "e">>
CmdBoth == <<"/", "b", "o", "t", "h">>
CmdB == <<"/", "b">>
InstrCreative == <<"B", "e", " ", "b", "o", "l", "d", ".">>
ModeBrief == <<"b", "r", "i", "e", "f">>
InstrBrief == <<"B", "e", " ", "b", "r", "i", "e", "f", ".">>

(* --------------------------- program constants ------------------------- *)
MAX_MESSAGE_LENGTH == 4096

\* chat-modes.json, loaded once at import: mode name -> system instruction
CHAT_MODES == (ModeCreative :> InstrCreative) @@ (ModeBrief :> InstrBrief)

Users == 1..MaxUser
Chats == 1..MaxChat

\* values of the AUTHORIZED_USERS / AUTHORIZED_GROUPS environment variables
EnvEmpty == <<>>
EnvOne == <<"1">>
EnvTwo == <<"2">>
EnvOneTwo == <<"1", ",", " ", "2">>
EnvBlanks == <<" ", "2", " ", ",", ",", " ">>
EnvCommas == <<",", " ", ",">>

(* ------------------------------- state --------------------------------- *)
VARIABLES
    environ,            \* os.environ: the two id lists as written in .env
    AUTHORIZED_USERS,   \* list parsed at import
    AUTHORIZED_GROUPS,  \* list parsed at import
    user_data,          \* context.user_data of every user: a dict, as a set of pairs
    api_usage,          \* rows of table api_usage, in insertion order
    conversations,      \* rows of table conversations, in insertion order
    pending,            \* updates fetched by polling and not yet dispatched
    received,           \* updates fetched so far
    update,             \* the update whose handler is running
    world,              \* how each provider answers while this update is handled
    pc,                 \* position of the running handler
    authz,              \* outcome of is_authorized for this update
    frame,              \* locals of the running handler
    outbox,             \* messages the Bot API accepted for this update
    events,             \* calls made for this update, in program order
    failure,            \* exception that left the handler ("" if none)
    send_lost,          \* whether a send raised while this update was handled
    results,            \* api of every provider call that returned a result
    before,             \* the tables and user_data as they were at dispatch
    mode_log,           \* the /mode calls that took effect: the last three of each
                        \* user, and the mode last asked for by each user and in
                        \* each chat
    attempts,           \* the sends of reply parts tried for this update, in order
    chunker             \* a call of split_long_message: its arguments and result

vars == <<environ, AUTHORIZED_USERS, AUTHORIZED_GROUPS, user_data, api_usage,
          conversations, pending, received, update, world, pc, authz, frame,
          outbox, events, failure, send_lost, results, before, mode_log,
          attempts, chunker>>

config == <<environ, AUTHORIZED_USERS, AUTHORIZED_GROUPS>>
tables == <<api_usage, conversations>>
queue == <<pending, received>>
ghosts == <<results, before, mode_log, attempts>>

(* ---------------------------- access gate ------------------------------ *)
NonBlank(t) == Strip(t) # <<>>

get_authorized_ids(ids_str) ==
    IF ids_str = <<>> THEN <<>>
    ELSE LET kept == SelectSeq(SplitOn(ids_str, ","), NonBlank)
         IN  [i \in 1..Len(kept) |-> ParseInt(Strip(kept[i]))]

\* a slip that would open the gate when no list is configured
is_authorized_OpenWhenEmpty(upd) ==
    \/ AUTHORIZED_USERS = <<>> /\ AUTHORIZED_GROUPS = <<>>
    \/ InList(upd.user, AUTHORIZED_USERS)
    \/ InList(upd.chat, AUTHORIZED_GROUPS)

\* a slip that would forget the group list
is_authorized_UsersOnly(upd) ==
    AUTHORIZED_USERS # <<>> /\ InList(upd.user, AUTHORIZED_USERS)

is_authorized(upd) ==
    LET user_id == upd.user
        chat_id == upd.chat
    IN  IF AUTHORIZED_USERS # <<>> /\ InList(user_id, AUTHORIZED_USERS) THEN TRUE
        ELSE IF AUTHORIZED_GROUPS # <<>> /\ InList(chat_id, AUTHORIZED_GROUPS) THEN TRUE
        ELSE FALSE

Verdict(upd) == IF is_authorized(upd) THEN "granted" ELSE "denied"

(* ------------------------- values and helpers -------------------------- *)
\* Python None is <<>>, a present value x is <<x>>
None == <<>>
Some(x) == <<x>>
Truthy(opt) == opt # <<>> /\ opt[1] # <<>>

\* an outgoing message: fixed texts are named by kind, computed texts are in body
Msg(kind, body, parse_mode) == [kind |-> kind, body |-> body, parse_mode |-> parse_mode]

EmptyFrame ==
    [model_name |-> <<>>, api |-> "", user_message |-> <<>>, mode |-> None,
     image_content |-> None, request |-> <<>>, prompt |-> <<>>,
     response |-> <<>>, parts |-> <<>>, i |-> 0]

\* context.args: the words after the command
Args(text) == IF Words(text) = <<>> THEN <<>> ELSE Tail(Words(text))

\* context.user_data.get('mode')
GetMode(dict) ==
    IF \E p \in dict : p[1] = "mode"
    THEN Some((CHOOSE p \in dict : p[1] = "mode")[2])
    ELSE None

ModeKnown(mode) == Truthy(mode) /\ mode[1] \in DOMAIN CHAT_MODES

\* get_file_content names `update`, which is neither a parameter nor a global:
\* the call raises NameError before is_authorized or the download is reached
get_file_content == [exception |-> "NameError", downloaded |-> FALSE, content |-> None]

(* --------------------------- the two tables ---------------------------- *)
\* the INSERT names four columns: cost stays NULL
save_api_usage(ledger, api, prompt_tokens, completion_tokens, total_tokens) ==
    Append(ledger, [api |-> api, prompt_tokens |-> prompt_tokens,
                    completion_tokens |-> completion_tokens,
                    total_tokens |-> total_tokens, cost |-> "NULL"])

save_to_database(log, user_id, message, response) ==
    Append(log, [user_id |-> user_id, message |-> message, response |-> response])

RECURSIVE SumOf(_, _, _)
SumOf(ledger, api, column) ==
    IF ledger = <<>> THEN 0
    ELSE (IF Head(ledger).api = api THEN Head(ledger)[column] ELSE 0)
         + SumOf(Tail(ledger), api, column)

\* a slip that would sum over the whole table for every api
RECURSIVE SumOfAll(_, _)
SumOfAll(ledger, column) ==
    IF ledger = <<>> THEN 0 ELSE Head(ledger)[column] + SumOfAll(Tail(ledger), column)

Aggregate_SumAll(ledger) ==
    {[api |-> a,
      prompt_tokens |-> SumOfAll(ledger, "prompt_tokens"),
      completion_tokens |-> SumOfAll(ledger, "completion_tokens"),
      total_tokens |-> SumOfAll(ledger, "total_tokens")] :
        a \in {ledger[i].api : i \in 1..Len(ledger)}}

\* SELECT api, SUM(...) ... GROUP BY api
Aggregate(ledger) ==
    {[api |-> a,
      prompt_tokens |-> SumOf(ledger, a, "prompt_tokens"),
      completion_tokens |-> SumOf(ledger, a, "completion_tokens"),
      total_tokens |-> SumOf(ledger, a, "total_tokens")] :
        a \in {ledger[i].api : i \in 1..Len(ledger)}}

\* ... ORDER BY timestamp DESC LIMIT 10
Recent(ledger) ==
    LET n == IF Len(ledger) < 10 THEN Len(ledger) ELSE 10
    IN  [i \in 1..n |-> ledger[Len(ledger) + 1 - i]]

(* ------------------------------ adapters ------------------------------- *)
\* a slip that would append the instruction after the user turn
gpt_messages_SystemLast(prompt, image_content, mode) ==
    LET user_turn == [role |-> "user", content |-> prompt, image |-> None]
    IN  IF Truthy(image_content)
        THEN <<[role |-> "user", content |-> prompt, image |-> image_content]>>
        ELSE IF ModeKnown(mode)
        THEN <<user_turn, [role |-> "system", content |-> CHAT_MODES[mode[1]],
                           image |-> None]>>
        ELSE <<user_turn>>

gpt_messages(prompt, image_content, mode) ==
    LET user_turn == [role |-> "user", content |-> prompt, image |-> None]
        messages == IF ModeKnown(mode)
                    THEN <<[role |-> "system", content |-> CHAT_MODES[mode[1]],
                            image |-> None], user_turn>>
                    ELSE <<user_turn>>
    IN  IF Truthy(image_content)
        THEN <<[role |-> "user", content |-> prompt, image |-> image_content]>>
        ELSE messages

claude_message_content(prompt, mode) ==
    IF ModeKnown(mode) THEN CHAT_MODES[mode[1]] \o HumanMarker \o prompt ELSE prompt

claude_messages(prompt, image_content, mode) ==
    IF Truthy(image_content)
    THEN <<[role |-> "user", content |-> prompt, image |-> image_content]>>
    ELSE <<[role |-> "user", content |-> claude_message_content(prompt, mode),
            image |-> None]>>

\* what a provider may answer, and the usage block OpenAI reports with it
Replies == {<<"4">>, <<" ", "o", "k", "\n">>}
Usages == {[prompt_tokens |-> 3, completion_tokens |-> 1, total_tokens |-> 4]}
Outcomes == {"ok", "raise"}

(* ------------------------------ delivery ------------------------------- *)
\* the grave accent cannot be written in a string here: it has a name instead
GraveAccent == "grave"
EscapeChars == {"_", "*", "[", "]", "(", ")", "~", GraveAccent, ">", "#", "+", "-", "=",
                "|", "{", "}", ".", "!"}

\* ''.join('\\' + char if char in escape_chars else char for char in text), for
\* the characters lo..hi of text; the range is halved so that a text of some
\* thousand characters does not nest as deep as it is long
RECURSIVE escape_range(_, _, _)
escape_range(text, lo, hi) ==
    IF lo > hi THEN <<>>
    ELSE IF lo = hi
    THEN (IF text[lo] \in EscapeChars THEN <<"\\", text[lo]>> ELSE <<text[lo]>>)
    ELSE LET mid == (lo + hi) \div 2
         IN  escape_range(text, lo, mid) \o escape_range(text, mid + 1, hi)

escape_markdown(text) == escape_range(text, 1, Len(text))

\* a slip that would drop the character after every cut
RECURSIVE SplitResponse_DropOne(_, _)
SplitResponse_DropOne(full_response, limit) ==
    IF full_response = <<>> THEN <<>>
    ELSE IF Len(full_response) <= limit THEN <<full_response>>
    ELSE LET found == RFind(full_response, "\n", 0, limit)
             split_index == IF found = -1 THEN limit ELSE found
         IN  <<SubSeq(full_response, 1, split_index)>>
             \o SplitResponse_DropOne(
                  LStrip(SubSeq(full_response, split_index + 2, Len(full_response))),
                  limit)

\* the while loop of process_message
RECURSIVE SplitResponse(_, _)
SplitResponse(full_response, limit) ==
    IF full_response = <<>> THEN <<>>
    ELSE IF Len(full_response) <= limit THEN <<full_response>>
    ELSE LET found == RFind(full_response, "\n", 0, limit)
             split_index == IF found = -1 THEN limit ELSE found
         IN  <<SubSeq(full_response, 1, split_index)>>
             \o SplitResponse(
                  LStrip(SubSeq(full_response, split_index + 1, Len(full_response))),
                  limit)

\* the while loop of split_long_message
RECURSIVE split_loop(_, _, _)
split_loop(message, max_length, parts) ==
    IF Len(message) > max_length
    THEN LET part == SubSeq(message, 1, max_length)
             last_newline == RFind(part, "\n", 0, Len(part))
         IN  IF last_newline # -1
             THEN split_loop(SubSeq(message, last_newline + 2, Len(message)), max_length,
                             Append(parts, SubSeq(message, 1, last_newline)))
             ELSE split_loop(SubSeq(message, max_length + 1, Len(message)), max_length,
                             Append(parts, part))
    ELSE IF message # <<>> THEN Append(parts, message) ELSE parts

\* a slip that would skip one character after a cut that found no line break
RECURSIVE split_loop_SkipOne(_, _, _)
split_loop_SkipOne(message, max_length, parts) ==
    IF Len(message) > max_length
    THEN LET part == SubSeq(message, 1, max_length)
             last_newline == RFind(part, "\n", 0, Len(part))
         IN  IF last_newline # -1
             THEN split_loop_SkipOne(SubSeq(message, last_newline + 2, Len(message)),
                                     max_length,
                                     Append(parts, SubSeq(message, 1, last_newline)))
             ELSE split_loop_SkipOne(SubSeq(message, max_length + 2, Len(message)),
                                     max_length, Append(parts, part))
    ELSE IF message # <<>> THEN Append(parts, message) ELSE parts

split_long_message_SkipOne(message, max_length) ==
    IF Len(message) <= max_length THEN <<message>>
    ELSE split_loop_SkipOne(message, max_length, <<>>)

\* a slip that would let the loop stop one character early
split_long_message_StopEarly(message, max_length) ==
    IF Len(message) <= max_length THEN <<message>>
    ELSE IF Len(message) = max_length + 1 THEN <<message>>
    ELSE split_loop(message, max_length, <<>>)

\* a slip that would cut at the first line break of the window, not the last
RECURSIVE split_loop_FirstBreak(_, _, _)
split_loop_FirstBreak(message, max_length, parts) ==
    IF Len(message) > max_length
    THEN LET part == SubSeq(message, 1, max_length)
             hits == {k \in 0..(max_length - 1) : part[k + 1] = "\n"}
             first_newline == IF hits = {} THEN -1
                              ELSE CHOOSE k \in hits : \A j \in hits : k <= j
         IN  IF first_newline # -1
             THEN split_loop_FirstBreak(SubSeq(message, first_newline + 2, Len(message)),
                                        max_length,
                                        Append(parts, SubSeq(message, 1, first_newline)))
             ELSE split_loop_FirstBreak(SubSeq(message, max_length + 1, Len(message)),
                                        max_length, Append(parts, part))
    ELSE IF message # <<>> THEN Append(parts, message) ELSE parts

split_long_message_FirstBreak(message, max_length) ==
    IF Len(message) <= max_length THEN <<message>>
    ELSE split_loop_FirstBreak(message, max_length, <<>>)

split_long_message(message, max_length) ==
    IF Len(message) <= max_length THEN <<message>>
    ELSE split_loop(message, max_length, <<>>)

FullResponse(model_name, response) == <<"*">> \o model_name \o SaysSuffix \o response

PartLabel(i, total_parts) ==
    PartWord \o IntToText(i) \o <<"/">> \o IntToText(total_parts) \o PartColon

(* ------------------------------ dispatch ------------------------------- *)
\* the handler table of main(); a text that is no command goes to the MessageHandler
Route(text) ==
    LET w == IF Words(text) = <<>> THEN <<>> ELSE Words(text)[1]
    IN  CASE w = TxtStart -> "start"
          [] w = TxtHelp -> "help_command"
          [] w \in {CmdGpt, CmdG} -> "gpt_command"
          [] w \in {CmdClaude, CmdC} -> "claude_command"
          [] w \in {CmdCompare, CmdBoth, CmdB} -> "compare_command"
          [] w = CmdImage -> "generate_image_command"
          [] w = TxtMode -> "set_mode_command"
          [] w = TxtBalance -> "balance_command"
          [] w = TxtRecentUsage -> "recent_usage_command"
          [] OTHER -> "text_handler"

PlainTexts == {TxtStart, TxtHelp, TxtImage, TxtImageCat, TxtMode, TxtModeReset,
               TxtModeCreative, TxtModeBogus, TxtBalance, TxtRecentUsage, TxtFree}
MediaTexts == {TxtGpt, TxtClaude, TxtCompare}

\* the updates a user can send: identity, text, and for the chat commands an
\* optional attachment
Updates ==
    [user : Users, chat : Chats, text : PlainTexts, attachment : {"none"}]
    \cup [user : Users, chat : Chats, text : MediaTexts,
          attachment : {"none", "document", "photo"}]

\* providers are outside the program: each may answer or raise
Worlds(upd) ==
    LET h == Route(upd.text)
    IN  [openai : IF h \in {"gpt_command", "compare_command"} THEN Outcomes ELSE {"ok"},
         anthropic : IF h \in {"claude_command", "compare_command"}
                     THEN Outcomes ELSE {"ok"},
         openai_image : IF h = "generate_image_command" THEN Outcomes ELSE {"ok"}]

NoUpdate == [user |-> 0, chat |-> 0, text |-> <<>>, attachment |-> "none"]
NoWorld == [openai |-> "ok", anthropic |-> "ok", openai_image |-> "ok"]
NoSnapshot == [api_usage |-> <<>>, conversations |-> <<>>, user_data |-> <<>>]
NoModeLog == [calls |-> [u \in Users |-> <<>>], by_user |-> [u \in Users |-> None],
              by_chat |-> [c \in Chats |-> None]]

InitProgram ==
    /\ AUTHORIZED_USERS = get_authorized_ids(environ.AUTHORIZED_USERS)
    /\ AUTHORIZED_GROUPS = get_authorized_ids(environ.AUTHORIZED_GROUPS)
    /\ user_data = [u \in Users |-> {}]
    /\ api_usage = <<>>
    /\ conversations = <<>>
    /\ pending = 0
    /\ received = 0
    /\ update = NoUpdate
    /\ world = NoWorld
    /\ authz = "unchecked"
    /\ frame = EmptyFrame
    /\ outbox = <<>>
    /\ events = <<>>
    /\ failure = ""
    /\ send_lost = FALSE
    /\ results = <<>>
    /\ before = NoSnapshot
    /\ mode_log = NoModeLog
    /\ attempts = <<>>

NoChunker == [message |-> <<>>, max_length |-> 0, parts |-> <<>>]

Init ==
    /\ environ \in [AUTHORIZED_USERS : {EnvEmpty, EnvOne},
                    AUTHORIZED_GROUPS : {EnvEmpty, EnvTwo}]
    /\ pc = "idle"
    /\ chunker = NoChunker
    /\ InitProgram

\* run_polling fetches an update; a run ends after `limit` of them
Fetch(limit) ==
    /\ received < limit
    /\ pending' = pending + 1
    /\ received' = received + 1
    /\ UNCHANGED <<config, chunker, user_data, tables, update, world, pc, authz, frame,
                   outbox, events, failure, send_lost, ghosts>>

Arrive == Fetch(MaxUpdates)

\* the application takes the next update, one of `sent`, when no handler is running
Take(sent) ==
    /\ pc = "idle"
    /\ pending > 0
    /\ pending' = pending - 1
    /\ \E upd \in sent :
         /\ update' = upd
         /\ world' \in Worlds(upd)
         /\ pc' = Route(upd.text)
    /\ before' = [api_usage |-> api_usage, conversations |-> conversations,
                   user_data |-> user_data]
    /\ UNCHANGED <<config, chunker, user_data, tables, received, authz, frame, outbox, events,
                   failure, send_lost, results, mode_log, attempts>>

Dispatch == Take(Updates)

\* the handler has returned or raised; the application logs an exception and
\* goes on, and the handler's locals are gone
Return ==
    /\ pc = "done"
    /\ pc' = "idle"
    /\ update' = NoUpdate
    /\ world' = NoWorld
    /\ authz' = "unchecked"
    /\ frame' = EmptyFrame
    /\ outbox' = <<>>
    /\ events' = <<>>
    /\ failure' = ""
    /\ send_lost' = FALSE
    /\ before' = NoSnapshot
    /\ attempts' = <<>>
    /\ UNCHANGED <<config, chunker, user_data, tables, queue, results, mode_log>>

\* a send that is the last statement of its handler: accepted, or it raises
SendLast(msg) ==
    \E ok \in BOOLEAN :
        /\ outbox' = IF ok THEN Append(outbox, msg) ELSE outbox
        /\ send_lost' = (send_lost \/ ~ok)
        /\ failure' = IF ok THEN failure ELSE "TelegramError"
        /\ pc' = "done"

\* a send followed by more statements: on success the handler goes on at `next`
SendThen(msg, next) ==
    \E ok \in BOOLEAN :
        /\ outbox' = IF ok THEN Append(outbox, msg) ELSE outbox
        /\ send_lost' = (send_lost \/ ~ok)
        /\ failure' = IF ok THEN failure ELSE "TelegramError"
        /\ pc' = IF ok THEN next ELSE "done"

(* -------------------------- simple handlers ---------------------------- *)
\* the handlers that check the gate and send one reply
GateAndReply(label, kind, data) ==
    /\ pc = label
    /\ authz' = Verdict(update)
    /\ events' = events \o <<"auth", "send">>
    /\ SendLast(IF is_authorized(update) THEN Msg(kind, data, "")
                ELSE Msg("denial", <<>>, ""))
    /\ UNCHANGED <<config, chunker, user_data, tables, queue, update, world, frame, ghosts>>

start == GateAndReply("start", "welcome", <<>>)

help_command == GateAndReply("help_command", "help", <<>>)

balance_command == GateAndReply("balance_command", "balance", Aggregate(api_usage))

recent_usage_command ==
    GateAndReply("recent_usage_command", "recent_usage", Recent(api_usage))

\* the lambda of the MessageHandler: a denial for a stranger, None otherwise
text_handler ==
    /\ pc = "text_handler"
    /\ authz' = Verdict(update)
    /\ IF is_authorized(update)
       THEN /\ events' = events \o <<"auth">>
            /\ pc' = "done"
            /\ UNCHANGED <<outbox, send_lost, failure>>
       ELSE /\ events' = events \o <<"auth", "send">>
            /\ SendLast(Msg("denial", <<>>, ""))
    /\ UNCHANGED <<config, chunker, user_data, tables, queue, update, world, frame, ghosts>>

(* ------------------------------- /mode --------------------------------- *)
ModeNames == <<ModeCreative, ModeBrief>>

WithoutMode(dict) == {p \in dict : p[1] # "mode"}

\* a slip that would store whatever name was given
set_mode_outcome_StoreAny(dict, mode) ==
    IF mode = Some(KwReset)
    THEN [dict |-> WithoutMode(dict), reply |-> Msg("mode_reset", <<>>, "")]
    ELSE IF Truthy(mode)
    THEN [dict |-> WithoutMode(dict) \cup {<<"mode", mode[1]>>},
          reply |-> Msg("mode_set", mode[1], "")]
    ELSE [dict |-> dict,
          reply |-> Msg("invalid_mode", Join(<<",", " ">>, ModeNames), "")]

\* a slip that would answer a reset without deleting the key
set_mode_outcome_KeepOnReset(dict, mode) ==
    IF mode = Some(KwReset)
    THEN [dict |-> dict, reply |-> Msg("mode_reset", <<>>, "")]
    ELSE IF ModeKnown(mode)
    THEN [dict |-> WithoutMode(dict) \cup {<<"mode", mode[1]>>},
          reply |-> Msg("mode_set", mode[1], "")]
    ELSE [dict |-> dict,
          reply |-> Msg("invalid_mode", Join(<<",", " ">>, ModeNames), "")]

\* the three branches of set_mode_command after the gate
set_mode_outcome(dict, mode) ==
    IF mode = Some(KwReset)
    THEN [dict |-> WithoutMode(dict), reply |-> Msg("mode_reset", <<>>, "")]
    ELSE IF ModeKnown(mode)
    THEN [dict |-> WithoutMode(dict) \cup {<<"mode", mode[1]>>},
          reply |-> Msg("mode_set", mode[1], "")]
    ELSE [dict |-> dict,
          reply |-> Msg("invalid_mode", Join(<<",", " ">>, ModeNames), "")]

\* what a /mode call that took effect leaves in mode_log
Logged(log, upd, mode, out) ==
    IF out.reply.kind \notin {"mode_set", "mode_reset"} THEN log
    ELSE LET sofar == Append(log.calls[upd.user], out.reply.kind)
             n == Len(sofar)
             asked == IF out.reply.kind = "mode_set" THEN mode ELSE None
         IN  [calls |-> [log.calls EXCEPT ![upd.user] =
                             IF n > 3 THEN SubSeq(sofar, n - 2, n) ELSE sofar],
              by_user |-> [log.by_user EXCEPT ![upd.user] = asked],
              by_chat |-> [log.by_chat EXCEPT ![upd.chat] = asked]]

\* a slip that would keep the mode in one place for all users
set_mode_command_Global ==
    /\ pc = "set_mode_command"
    /\ authz' = Verdict(update)
    /\ LET args == Args(update.text)
           mode == IF args # <<>> THEN Some(args[1]) ELSE None
           out == set_mode_outcome(user_data[update.user], mode)
       IN  /\ frame' = [frame EXCEPT !.mode = mode]
           /\ IF ~is_authorized(update)
              THEN /\ events' = events \o <<"auth", "send">>
                   /\ user_data' = user_data
                   /\ mode_log' = mode_log
                   /\ SendLast(Msg("denial", <<>>, ""))
              ELSE /\ events' = events \o
                        (IF out.reply.kind = "mode_set" \/ out.dict # user_data[update.user]
                         THEN <<"auth", "mutate", "send">> ELSE <<"auth", "send">>)
                   /\ user_data' = [u \in Users |-> out.dict]
                   /\ mode_log' = Logged(mode_log, update, mode, out)
                   /\ SendLast(out.reply)
    /\ UNCHANGED <<config, chunker, tables, queue, update, world, results, before, attempts>>

set_mode_command ==
    /\ pc = "set_mode_command"
    /\ authz' = Verdict(update)
    /\ LET args == Args(update.text)
           mode == IF args # <<>> THEN Some(args[1]) ELSE None
           out == set_mode_outcome(user_data[update.user], mode)
       IN  /\ frame' = [frame EXCEPT !.mode = mode]
           /\ IF ~is_authorized(update)
              THEN /\ events' = events \o <<"auth", "send">>
                   /\ user_data' = user_data
                   /\ mode_log' = mode_log
                   /\ SendLast(Msg("denial", <<>>, ""))
              ELSE /\ events' = events \o
                        (IF out.reply.kind = "mode_set" \/ out.dict # user_data[update.user]
                         THEN <<"auth", "mutate", "send">> ELSE <<"auth", "send">>)
                   /\ user_data' = [user_data EXCEPT ![update.user] = out.dict]
                   /\ mode_log' = Logged(mode_log, update, mode, out)
                   /\ SendLast(out.reply)
    /\ UNCHANGED <<config, chunker, tables, queue, update, world, results, before, attempts>>

(* --------------------------- /gpt and /claude -------------------------- *)
\* reply "hold on a sec", then call process_message
ChatCommand(label, model_name, api) ==
    /\ pc = label
    /\ events' = events \o <<"send">>
    /\ frame' = [frame EXCEPT !.model_name = model_name, !.api = api]
    /\ SendThen(Msg("hold_on", <<>>, ""), "process_message")
    /\ UNCHANGED <<config, chunker, user_data, tables, queue, update, world, authz, ghosts>>

gpt_command == ChatCommand("gpt_command", NameGPT, "openai")

claude_command == ChatCommand("claude_command", NameClaude, "anthropic")

\* process_message up to the gate
process_message ==
    /\ pc = "process_message"
    /\ frame' = [frame EXCEPT !.user_message = update.text,
                              !.mode = GetMode(user_data[update.user])]
    /\ authz' = Verdict(update)
    /\ IF ~is_authorized(update)
       THEN /\ events' = events \o <<"auth", "send">>
            /\ SendLast(Msg("denial", <<>>, ""))
       ELSE /\ events' = events \o <<"auth">>
            /\ pc' = "pm_media"
            /\ UNCHANGED <<outbox, send_lost, failure>>
    /\ UNCHANGED <<config, chunker, user_data, tables, queue, update, world, ghosts>>

\* the attachment: get_file, then get_file_content, whose exception is caught
pm_media ==
    /\ pc = "pm_media"
    /\ IF update.attachment \in {"document", "photo"}
       THEN /\ events' = events \o <<"get_file">>
                         \o (IF get_file_content.downloaded THEN <<"download">> ELSE <<>>)
            /\ frame' = [frame EXCEPT !.image_content =
                            IF get_file_content.exception = ""
                            THEN get_file_content.content ELSE frame.image_content]
       ELSE UNCHANGED <<events, frame>>
    /\ pc' = "pm_request"
    /\ UNCHANGED <<config, chunker, user_data, tables, queue, update, world, authz, outbox,
                   failure, send_lost, ghosts>>

\* model_request is entered: the adapter builds its request and calls the SDK,
\* a synchronous call that holds the event loop until it returns or raises
pm_request ==
    /\ pc = "pm_request"
    /\ frame' = [frame EXCEPT !.request =
                    IF frame.api = "openai"
                    THEN gpt_messages(frame.user_message, frame.image_content, frame.mode)
                    ELSE claude_messages(frame.user_message, frame.image_content,
                                         frame.mode)]
    /\ events' = Append(events, "call")
    /\ pc' = "in_call"
    /\ UNCHANGED <<config, chunker, user_data, tables, queue, update, world, authz, outbox,
                   failure, send_lost, ghosts>>

\* the completion arrives, one of `replies`: usage is saved, the text stripped
gpt_answers(replies) ==
    /\ pc = "in_call" /\ frame.api = "openai" /\ world.openai = "ok"
    /\ \E reply \in replies, usage \in Usages :
         /\ api_usage' = save_api_usage(api_usage, "openai", usage.prompt_tokens,
                                        usage.completion_tokens, usage.total_tokens)
         /\ frame' = [frame EXCEPT !.response = Strip(reply)]
    /\ results' = Append(results, "openai")
    /\ events' = Append(events, "result")
    /\ pc' = "pm_split"
    /\ UNCHANGED <<config, chunker, user_data, conversations, queue, update, world, authz,
                   outbox, failure, send_lost, before, mode_log, attempts>>

gpt_returns == gpt_answers(Replies)

gpt_raises ==
    /\ pc = "in_call" /\ frame.api = "openai" /\ world.openai = "raise"
    /\ frame' = [frame EXCEPT !.response = GptErrorText]
    /\ events' = Append(events, "error")
    /\ pc' = "pm_split"
    /\ UNCHANGED <<config, chunker, user_data, tables, queue, update, world, authz, outbox,
                   failure, send_lost, ghosts>>

claude_returns ==
    /\ pc = "in_call" /\ frame.api = "anthropic" /\ world.anthropic = "ok"
    /\ \E reply \in Replies :
         LET prompt_tokens ==
                 Len(Words(claude_message_content(frame.user_message, frame.mode)))
             completion_tokens == Len(Words(reply))
         IN  /\ api_usage' = save_api_usage(api_usage, "anthropic", prompt_tokens,
                                            completion_tokens,
                                            prompt_tokens + completion_tokens)
             /\ frame' = [frame EXCEPT !.response = reply]
    /\ results' = Append(results, "anthropic")
    /\ events' = Append(events, "result")
    /\ pc' = "pm_split"
    /\ UNCHANGED <<config, chunker, user_data, conversations, queue, update, world, authz,
                   outbox, failure, send_lost, before, mode_log, attempts>>

claude_raises ==
    /\ pc = "in_call" /\ frame.api = "anthropic" /\ world.anthropic = "raise"
    /\ frame' = [frame EXCEPT !.response = ClaudeErrorText]
    /\ events' = Append(events, "error")
    /\ pc' = "pm_split"
    /\ UNCHANGED <<config, chunker, user_data, tables, queue, update, world, authz, outbox,
                   failure, send_lost, ghosts>>

\* the reply is composed and cut into parts; a multi-part answer is announced
pm_split ==
    /\ pc = "pm_split"
    /\ LET full_response == FullResponse(frame.model_name, frame.response)
           response_parts == SplitResponse(full_response, MAX_MESSAGE_LENGTH)
       IN  /\ frame' = [frame EXCEPT !.parts = response_parts, !.i = 1]
           /\ IF Len(response_parts) > 1
              THEN /\ events' = Append(events, "send")
                   /\ SendThen(Msg("multi_part_notice", IntToText(Len(response_parts)),
                                   ""), "pm_send")
              ELSE /\ pc' = IF response_parts = <<>> THEN "pm_save" ELSE "pm_send"
                   /\ UNCHANGED <<events, outbox, send_lost, failure>>
    /\ UNCHANGED <<config, chunker, user_data, tables, queue, update, world, authz, ghosts>>

\* a slip that would let the exception of the plain-text send leave the loop
pm_send_FallbackRaises ==
    /\ pc = "pm_send"
    /\ LET i == frame.i
           total_parts == Len(frame.parts)
           text == PartLabel(i, total_parts) \o frame.parts[i]
       IN  /\ \E formatted_ok \in BOOLEAN, plain_ok \in BOOLEAN :
                 /\ outbox' =
                      IF formatted_ok
                      THEN Append(outbox, Msg("part", escape_markdown(text), "MarkdownV2"))
                      ELSE IF plain_ok THEN Append(outbox, Msg("part", text, ""))
                      ELSE outbox
                 /\ send_lost' = (send_lost \/ ~formatted_ok)
                 /\ events' = events \o (IF formatted_ok THEN <<"send">>
                                         ELSE <<"send", "send">>)
                 /\ attempts' = attempts
                      \o <<[part |-> i, parse_mode |-> "MarkdownV2",
                            text |-> escape_markdown(text), ok |-> formatted_ok]>>
                      \o (IF formatted_ok THEN <<>>
                          ELSE <<[part |-> i, parse_mode |-> "", text |-> text,
                                  ok |-> plain_ok]>>)
                 /\ failure' = IF formatted_ok \/ plain_ok THEN failure
                               ELSE "TelegramError"
                 /\ pc' = IF ~formatted_ok /\ ~plain_ok THEN "done"
                          ELSE IF i < total_parts THEN "pm_send" ELSE "pm_save"
           /\ frame' = [frame EXCEPT !.i = i + 1]
    /\ UNCHANGED <<config, chunker, user_data, tables, queue, update, world, authz,
                   results, before, mode_log>>

\* one turn of the sending loop: MarkdownV2 first, plain text if that raises,
\* nothing if that raises too
pm_send ==
    /\ pc = "pm_send"
    /\ LET i == frame.i
           total_parts == Len(frame.parts)
           text == PartLabel(i, total_parts) \o frame.parts[i]
       IN  /\ \E formatted_ok \in BOOLEAN, plain_ok \in BOOLEAN :
                 /\ outbox' =
                      IF formatted_ok
                      THEN Append(outbox, Msg("part", escape_markdown(text), "MarkdownV2"))
                      ELSE IF plain_ok THEN Append(outbox, Msg("part", text, ""))
                      ELSE outbox
                 /\ send_lost' = (send_lost \/ ~formatted_ok)
                 /\ events' = events \o (IF formatted_ok THEN <<"send">>
                                         ELSE <<"send", "send">>)
                 /\ attempts' = attempts
                      \o <<[part |-> i, parse_mode |-> "MarkdownV2",
                            text |-> escape_markdown(text), ok |-> formatted_ok]>>
                      \o (IF formatted_ok THEN <<>>
                          ELSE <<[part |-> i, parse_mode |-> "", text |-> text,
                                  ok |-> plain_ok]>>)
           /\ frame' = [frame EXCEPT !.i = i + 1]
           /\ pc' = IF i < total_parts THEN "pm_send" ELSE "pm_save"
    /\ UNCHANGED <<config, chunker, user_data, tables, queue, update, world, authz, failure,
                   results, before, mode_log>>

\* the exchange is logged and process_message returns to the command handler
pm_save ==
    /\ pc = "pm_save"
    /\ conversations' = save_to_database(conversations, update.user, frame.user_message,
                                         Join(<<"\n">>, frame.parts))
    /\ pc' = "done"
    /\ UNCHANGED <<config, chunker, user_data, api_usage, queue, update, world, authz, frame,
                   outbox, events, failure, send_lost, ghosts>>

(* ------------------------------ /compare ------------------------------- *)
\* "Processing your request, please wait..."
compare_command ==
    /\ pc = "compare_command"
    /\ events' = Append(events, "send")
    /\ frame' = [frame EXCEPT !.user_message = Strip(Replace(update.text, CmdCompare, <<>>))]
    /\ SendThen(Msg("processing", <<>>, ""), "compare_media")
    /\ UNCHANGED <<config, chunker, user_data, tables, queue, update, world, authz, ghosts>>

\* With an attachment: get_file, then get_file_content raises and nothing catches
\* it.  Without: the arguments of the first process_message call name `prompt`,
\* which compare_command never binds, so the call raises NameError before
\* process_message is entered.
compare_media ==
    /\ pc = "compare_media"
    /\ IF update.attachment \in {"document", "photo"}
       THEN /\ events' = events \o <<"get_file">>
                         \o (IF get_file_content.downloaded THEN <<"download">> ELSE <<>>)
            /\ failure' = get_file_content.exception
       ELSE /\ events' = events
            /\ failure' = "NameError"
    /\ pc' = "done"
    /\ UNCHANGED <<config, chunker, user_data, tables, queue, update, world, authz, frame,
                   outbox, send_lost, ghosts>>

(* ------------------------------- /image -------------------------------- *)
\* the gate, the prompt and its check; then the synchronous images.generate call
generate_image_command ==
    /\ pc = "generate_image_command"
    /\ authz' = Verdict(update)
    /\ LET prompt == Strip(Replace(update.text, CmdGenerateImage, <<>>))
       IN  /\ frame' = [frame EXCEPT !.user_message = update.text, !.prompt = prompt,
                                     !.api = "openai_image"]
           /\ IF ~is_authorized(update)
              THEN /\ events' = events \o <<"auth", "send">>
                   /\ SendLast(Msg("denial", <<>>, ""))
              ELSE IF prompt = <<>>
              THEN /\ events' = events \o <<"auth", "send">>
                   /\ SendLast(Msg("image_prompt_missing", <<>>, ""))
              ELSE /\ events' = events \o <<"auth", "call">>
                   /\ pc' = "in_call"
                   /\ UNCHANGED <<outbox, send_lost, failure>>
    /\ UNCHANGED <<config, chunker, user_data, tables, queue, update, world, ghosts>>

\* a slip that would save the usage only once the photo has gone out
image_returns_SaveAfterSend ==
    /\ pc = "in_call" /\ frame.api = "openai_image" /\ world.openai_image = "ok"
    /\ results' = Append(results, "openai_image")
    /\ \E photo_ok \in BOOLEAN :
         IF photo_ok
         THEN /\ outbox' = Append(outbox, Msg("photo", <<>>, ""))
              /\ api_usage' = save_api_usage(api_usage, "openai_image",
                                             Len(Words(frame.prompt)), 0,
                                             Len(Words(frame.prompt)))
              /\ events' = events \o <<"result", "send">>
              /\ pc' = "done"
              /\ UNCHANGED <<send_lost, failure>>
         ELSE /\ events' = events \o <<"result", "send", "send">>
              /\ api_usage' = api_usage
              /\ \E ok \in BOOLEAN :
                   /\ outbox' = IF ok THEN Append(outbox, Msg("image_error", <<>>, ""))
                                ELSE outbox
                   /\ failure' = IF ok THEN failure ELSE "TelegramError"
              /\ send_lost' = TRUE
              /\ pc' = "done"
    /\ UNCHANGED <<config, chunker, user_data, conversations, queue, update, world, authz,
                   frame, before, mode_log, attempts>>

\* the image url arrives: usage is saved, then the photo is sent; if send_photo
\* raises, the except branch sends the error text
image_returns ==
    /\ pc = "in_call" /\ frame.api = "openai_image" /\ world.openai_image = "ok"
    /\ LET estimated_prompt_tokens == Len(Words(frame.prompt))
       IN  api_usage' = save_api_usage(api_usage, "openai_image",
                                       estimated_prompt_tokens, 0,
                                       estimated_prompt_tokens)
    /\ results' = Append(results, "openai_image")
    /\ \E photo_ok \in BOOLEAN :
         IF photo_ok
         THEN /\ outbox' = Append(outbox, Msg("photo", <<>>, ""))
              /\ events' = events \o <<"result", "send">>
              /\ pc' = "done"
              /\ UNCHANGED <<send_lost, failure>>
         ELSE /\ events' = events \o <<"result", "send", "send">>
              /\ \E ok \in BOOLEAN :
                   /\ outbox' = IF ok THEN Append(outbox, Msg("image_error", <<>>, ""))
                                ELSE outbox
                   /\ failure' = IF ok THEN failure ELSE "TelegramError"
              /\ send_lost' = TRUE
              /\ pc' = "done"
    /\ UNCHANGED <<config, chunker, user_data, conversations, queue, update, world, authz,
                   frame, before, mode_log, attempts>>

image_raises ==
    /\ pc = "in_call" /\ frame.api = "openai_image" /\ world.openai_image = "raise"
    /\ events' = events \o <<"error", "send">>
    /\ SendLast(Msg("image_error", <<>>, ""))
    /\ UNCHANGED <<config, chunker, user_data, tables, queue, update, world, authz, frame,
                   ghosts>>

(* --------------------------- specifications ---------------------------- *)
Next ==
    \/ Arrive
    \/ Dispatch
    \/ Return
    \/ start
    \/ help_command
    \/ balance_command
    \/ recent_usage_command
    \/ text_handler
    \/ set_mode_command
    \/ gpt_command
    \/ claude_command
    \/ process_message
    \/ pm_media
    \/ pm_request
    \/ gpt_returns
    \/ gpt_raises
    \/ claude_returns
    \/ claude_raises
    \/ pm_split
    \/ pm_send
    \/ pm_save
    \/ compare_command
    \/ compare_media
    \/ generate_image_command
    \/ image_returns
    \/ image_raises

Spec == Init /\ [][Next]_vars

(* ------------------ the gate alone, on wider inputs -------------------- *)
AuthEnvs == {EnvEmpty, EnvOne, EnvTwo, EnvOneTwo, EnvBlanks, EnvCommas}

InitAuth ==
    /\ environ \in [AUTHORIZED_USERS : AuthEnvs, AUTHORIZED_GROUPS : AuthEnvs]
    /\ pc = "gate_idle"
    /\ chunker = NoChunker
    /\ InitProgram

\* an update of some identity reaches a handler
GateAsk ==
    /\ pc = "gate_idle"
    /\ \E u \in Users, c \in Chats :
         update' = [user |-> u, chat |-> c, text |-> <<>>, attachment |-> "none"]
    /\ authz' = "unchecked"
    /\ pc' = "gate_ask"
    /\ UNCHANGED <<config, chunker, user_data, tables, queue, world, frame, outbox, events,
                   failure, send_lost, ghosts>>

\* the handler evaluates is_authorized(update)
GateAnswer ==
    /\ pc = "gate_ask"
    /\ authz' = Verdict(update)
    /\ pc' = "gate_idle"
    /\ UNCHANGED <<config, chunker, user_data, tables, queue, update, world, frame, outbox,
                   events, failure, send_lost, ghosts>>

NextAuth == GateAsk \/ GateAnswer

SpecAuth == InitAuth /\ [][NextAuth]_vars

(* ------------- modes alone: runs of /mode, /gpt and /claude ------------ *)
ModeTexts == {TxtMode, TxtModeReset, TxtModeCreative, TxtModeBrief, TxtModeBogus,
              TxtGpt, TxtClaude}

ModeUpdates == [user : Users, chat : Chats, text : ModeTexts, attachment : {"none"}]

ArriveMode == Fetch(MaxModeUpdates)

DispatchMode == Take(ModeUpdates)

NextMode ==
    \/ ArriveMode
    \/ DispatchMode
    \/ Return
    \/ set_mode_command
    \/ gpt_command
    \/ claude_command
    \/ process_message
    \/ pm_media
    \/ pm_request
    \/ gpt_returns
    \/ gpt_raises
    \/ claude_returns
    \/ claude_raises
    \/ pm_split
    \/ pm_send
    \/ pm_save

SpecMode == Init /\ [][NextMode]_vars

(* ---------- the ledger: runs of provider requests and /balance --------- *)
LedgerUpdates ==
    [user : Users, chat : Chats, text : {TxtImage, TxtImageCat, TxtGpt, TxtBalance},
     attachment : {"none"}]

ArriveLedger == Fetch(MaxLedgerUpdates)

DispatchLedger == Take(LedgerUpdates)

NextLedger ==
    \/ ArriveLedger
    \/ DispatchLedger
    \/ Return
    \/ balance_command
    \/ generate_image_command
    \/ image_returns
    \/ image_raises
    \/ gpt_command
    \/ process_message
    \/ pm_media
    \/ pm_request
    \/ gpt_returns
    \/ gpt_raises
    \/ pm_split
    \/ pm_send
    \/ pm_save

SpecLedger == Init /\ [][NextLedger]_vars

(* ------------- delivery: runs with answers of any length -------------- *)
\* n times the character ch
RECURSIVE Run(_, _)
Run(n, ch) ==
    IF n = 0 THEN <<>>
    ELSE IF n % 2 = 1 THEN Append(Run(n - 1, ch), ch)
    ELSE LET half == Run(n \div 2, ch) IN half \o half

\* answers around the platform's limit: one that fills a message to the last
\* character, one with a line break and blanks near the limit, one without any
\* line break, one of characters that MarkdownV2 escapes
LongReplies ==
    {Run(MAX_MESSAGE_LENGTH - 13, "a"),
     Run(4000, "a") \o <<"\n", " ">> \o Run(200, "b"),
     Run(MAX_MESSAGE_LENGTH + 4, "a"),
     Run(2100, ".")}

DeliverUpdates ==
    [user : Users, chat : Chats, text : {TxtGpt, TxtClaude}, attachment : {"none"}]

ArriveDeliver == Fetch(MaxDeliverUpdates)

DispatchDeliver == Take(DeliverUpdates)

gpt_returns_long == gpt_answers(LongReplies \cup Replies)

NextDeliver ==
    \/ ArriveDeliver
    \/ DispatchDeliver
    \/ Return
    \/ gpt_command
    \/ claude_command
    \/ process_message
    \/ pm_media
    \/ pm_request
    \/ gpt_returns_long
    \/ gpt_raises
    \/ claude_returns
    \/ claude_raises
    \/ pm_split
    \/ pm_send
    \/ pm_save

SpecDeliver == Init /\ [][NextDeliver]_vars

(* ------------------- split_long_message on its own -------------------- *)
Alphabet == {"a", "b", "\n"}

TextsUpTo(n) == UNION {[1..k -> Alphabet] : k \in 0..n}

InitSplit ==
    /\ environ = [AUTHORIZED_USERS |-> EnvOne, AUTHORIZED_GROUPS |-> EnvEmpty]
    /\ pc = "split_idle"
    /\ chunker \in [message : TextsUpTo(MaxLen), max_length : 1..MaxWidth,
                     parts : {<<>>}]
    /\ InitProgram

\* parts = await split_long_message(message, max_length)
split_call ==
    /\ pc = "split_idle"
    /\ chunker' = [chunker EXCEPT
                      !.parts = split_long_message(chunker.message, chunker.max_length)]
    /\ pc' = "split_done"
    /\ UNCHANGED <<config, user_data, tables, queue, update, world, authz, frame,
                   outbox, events, failure, send_lost, ghosts>>

NextSplit == split_call

SpecSplit == InitSplit /\ [][NextSplit]_vars

(* --------------- the two splitting loops, turn by turn ----------------- *)
\* chunker holds the text given, the loop's variable `message` (full_response
\* in process_message), its limit and the parts appended so far
InitLoop ==
    /\ environ = [AUTHORIZED_USERS |-> EnvOne, AUTHORIZED_GROUPS |-> EnvEmpty]
    /\ chunker \in
         {[loop |-> l, given |-> t, message |-> t, max_length |-> m, parts |-> <<>>] :
            l \in {"split_long_message", "process_message"},
            t \in TextsUpTo(MaxLen), m \in 1..MaxWidth}
         \cup
         {[loop |-> "process_message", given |-> FullResponse(NameGPT, r),
           message |-> FullResponse(NameGPT, r), max_length |-> MAX_MESSAGE_LENGTH,
           parts |-> <<>>] : r \in LongReplies}
    /\ pc = IF chunker.loop = "split_long_message" THEN "loop_entry" ELSE "loop_while"
    /\ InitProgram

\* split_long_message: a message within max_length is returned as it is
split_entry ==
    /\ pc = "loop_entry"
    /\ IF Len(chunker.message) <= chunker.max_length
       THEN /\ chunker' = [chunker EXCEPT !.parts = <<chunker.message>>]
            /\ pc' = "loop_done"
       ELSE /\ chunker' = chunker
            /\ pc' = "loop_while"
    /\ UNCHANGED <<config, user_data, tables, queue, update, world, authz, frame,
                   outbox, events, failure, send_lost, ghosts>>

\* a slip that would go on from the line break, not from behind it
split_iterate_KeepBreak ==
    /\ pc = "loop_while" /\ chunker.loop = "split_long_message"
    /\ Len(chunker.message) > chunker.max_length
    /\ LET message == chunker.message
           part == SubSeq(message, 1, chunker.max_length)
           last_newline == RFind(part, "\n", 0, Len(part))
       IN  chunker' =
             IF last_newline # -1
             THEN [chunker EXCEPT
                     !.message = SubSeq(message, last_newline + 1, Len(message)),
                     !.parts = Append(chunker.parts, SubSeq(message, 1, last_newline))]
             ELSE [chunker EXCEPT
                     !.message = SubSeq(message, chunker.max_length + 1, Len(message)),
                     !.parts = Append(chunker.parts, part)]
    /\ UNCHANGED <<config, user_data, tables, queue, update, world, pc, authz, frame,
                   outbox, events, failure, send_lost, ghosts>>

\* split_long_message: one turn of `while len(message) > max_length`
split_iterate ==
    /\ pc = "loop_while" /\ chunker.loop = "split_long_message"
    /\ Len(chunker.message) > chunker.max_length
    /\ LET message == chunker.message
           part == SubSeq(message, 1, chunker.max_length)
           last_newline == RFind(part, "\n", 0, Len(part))
       IN  chunker' =
             IF last_newline # -1
             THEN [chunker EXCEPT
                     !.message = SubSeq(message, last_newline + 2, Len(message)),
                     !.parts = Append(chunker.parts, SubSeq(message, 1, last_newline))]
             ELSE [chunker EXCEPT
                     !.message = SubSeq(message, chunker.max_length + 1, Len(message)),
                     !.parts = Append(chunker.parts, part)]
    /\ UNCHANGED <<config, user_data, tables, queue, update, world, pc, authz, frame,
                   outbox, events, failure, send_lost, ghosts>>

\* split_long_message: the loop is left, what remains is the last part
split_exit ==
    /\ pc = "loop_while" /\ chunker.loop = "split_long_message"
    /\ Len(chunker.message) <= chunker.max_length
    /\ chunker' = [chunker EXCEPT
                      !.parts = IF chunker.message # <<>>
                                THEN Append(chunker.parts, chunker.message)
                                ELSE chunker.parts]
    /\ pc' = "loop_done"
    /\ UNCHANGED <<config, user_data, tables, queue, update, world, authz, frame,
                   outbox, events, failure, send_lost, ghosts>>

\* process_message: one turn of `while full_response` that cuts
response_iterate ==
    /\ pc = "loop_while" /\ chunker.loop = "process_message"
    /\ chunker.message # <<>>
    /\ Len(chunker.message) > chunker.max_length
    /\ LET full_response == chunker.message
           found == RFind(full_response, "\n", 0, chunker.max_length)
           split_index == IF found = -1 THEN chunker.max_length ELSE found
       IN  chunker' =
             [chunker EXCEPT
                !.message = LStrip(SubSeq(full_response, split_index + 1,
                                          Len(full_response))),
                !.parts = Append(chunker.parts, SubSeq(full_response, 1, split_index))]
    /\ UNCHANGED <<config, user_data, tables, queue, update, world, pc, authz, frame,
                   outbox, events, failure, send_lost, ghosts>>

\* process_message: what remains fits, it is appended and the loop is broken
response_last ==
    /\ pc = "loop_while" /\ chunker.loop = "process_message"
    /\ chunker.message # <<>>
    /\ Len(chunker.message) <= chunker.max_length
    /\ chunker' = [chunker EXCEPT !.parts = Append(chunker.parts, chunker.message)]
    /\ pc' = "loop_done"
    /\ UNCHANGED <<config, user_data, tables, queue, update, world, authz, frame,
                   outbox, events, failure, send_lost, ghosts>>

\* process_message: nothing remains, the loop ends
response_exit ==
    /\ pc = "loop_while" /\ chunker.loop = "process_message"
    /\ chunker.message = <<>>
    /\ pc' = "loop_done"
    /\ UNCHANGED <<config, chunker, user_data, tables, queue, update, world, authz,
                   frame, outbox, events, failure, send_lost, ghosts>>

NextLoop ==
    \/ split_entry
    \/ split_iterate
    \/ split_exit
    \/ response_iterate
    \/ response_last
    \/ response_exit

\* a loop that is running goes on running
SpecLoop == InitLoop /\ [][NextLoop]_vars /\ WF_vars(NextLoop)

(* ------------------------------- claims -------------------------------- *)
Contains(text, part) ==
    \E k \in 0..(Len(text) - Len(part)) : SubSeq(text, k + 1, k + Len(part)) = part

Sent(kind) == \E k \in 1..Len(outbox) : outbox[k].kind = kind

Made(event) == \E k \in 1..Len(events) : events[k] = event

Apis(ledger) == [k \in 1..Len(ledger) |-> ledger[k].api]

\* C1: every provider call, every file fetch or download and every state
\* mutation made for an update comes after is_authorized was evaluated for it.
CE_C1 ==
    \A k \in 1..Len(events) :
        events[k] \in {"call", "get_file", "download", "mutate"}
            => \E j \in 1..(k - 1) : events[j] = "auth"

\* C2: when the handler of an update from an identity the gate rejects has
\* ended (and no send raised), the user was sent the denial, no provider was
\* called, and the two tables and every user's mode are as they were.
CE_C2 ==
    (pc = "done" /\ ~is_authorized(update) /\ ~send_lost)
        => /\ Sent("denial")
           /\ ~Made("call")
           /\ api_usage = before.api_usage
           /\ conversations = before.conversations
           /\ user_data = before.user_data

\* C3: whenever the gate has answered, it admitted the identity exactly when
\* the user id is among the configured user ids or the chat id is among the
\* configured group ids.
Thm_C3 ==
    authz # "unchecked"
        => (authz = "granted"
              <=> (update.user \in Range(AUTHORIZED_USERS)
                   \/ update.chat \in Range(AUTHORIZED_GROUPS)))

\* an identity that only the group list admits has been admitted
Witness_C3 ==
    /\ authz = "granted"
    /\ update.user \notin Range(AUTHORIZED_USERS)
    /\ update.chat \in Range(AUTHORIZED_GROUPS)

\* C4 as stated: with both lists empty the gate admits every identity.
CE_C4 ==
    (AUTHORIZED_USERS = <<>> /\ AUTHORIZED_GROUPS = <<>> /\ authz # "unchecked")
        => authz = "granted"

\* C4 as amended: with both lists empty the gate rejects every identity.
Thm_C4 ==
    (AUTHORIZED_USERS = <<>> /\ AUTHORIZED_GROUPS = <<>> /\ authz # "unchecked")
        => authz = "denied"

\* both lists are empty, written as separators only, and an identity was rejected
Witness_C4 ==
    /\ environ.AUTHORIZED_USERS = EnvCommas
    /\ AUTHORIZED_USERS = <<>>
    /\ AUTHORIZED_GROUPS = <<>>
    /\ authz = "denied"

\* C5: the api column of table api_usage lists, in order, exactly the provider
\* calls that returned a result: one row each, none missing, none removed,
\* whatever the sends did afterwards.
Thm_C5 == Apis(api_usage) = results

\* a provider answered this update, every attempt to deliver the answer raised,
\* the handler has ended, and the row is in the table
Witness_C5 ==
    /\ pc = "done"
    /\ Made("result")
    /\ send_lost
    /\ ~Sent("part") /\ ~Sent("photo")
    /\ Len(api_usage) = Len(before.api_usage) + 1

\* C6: when the handler of a /compare from an admitted identity has ended (no
\* send raised), two provider calls were made, both were started before either
\* result or error came back, and the reply was sent after both came back.
CE_C6 ==
    (pc = "done" /\ Route(update.text) = "compare_command" /\ is_authorized(update)
     /\ ~send_lost)
        => \E a, b \in 1..Len(events) :
              /\ a < b
              /\ events[a] = "call" /\ events[b] = "call"
              /\ \A k \in 1..Len(events) : events[k] \in {"result", "error"} => k > b
              /\ Cardinality({k \in 1..Len(events) : events[k] \in {"result", "error"}}) = 2
              /\ Sent("part")

\* C7: when the handler of a /compare from an admitted identity has ended (no
\* send raised) and one provider answers while the other raises, a reply was
\* delivered that holds the answer and the error text, and exactly one row was
\* added to api_usage, for the provider that answered.
CE_C7 ==
    (pc = "done" /\ Route(update.text) = "compare_command" /\ is_authorized(update)
     /\ ~send_lost /\ world.openai # world.anthropic)
        => /\ \E k \in 1..Len(outbox) :
                /\ outbox[k].kind = "part"
                /\ \E reply \in Replies : Contains(outbox[k].body, Strip(reply))
           /\ \E k \in 1..Len(outbox) :
                outbox[k].kind = "part" /\ Contains(outbox[k].body, ErrWord)
           /\ Len(api_usage) = Len(before.api_usage) + 1
           /\ api_usage[Len(api_usage)].api =
                (IF world.openai = "ok" THEN "openai" ELSE "anthropic")

\* C8: while a handler waits for its provider call and another update is
\* waiting, the application can take that update.
CE_C8 == (pc = "in_call" /\ pending > 0) => ENABLED Dispatch

\* C9: for an /image from an admitted identity whose text is empty once the
\* command is taken away, the image provider is not called, no row is added to
\* api_usage, and the user is sent the prompt-missing reply.
CE_C9 ==
    (Route(update.text) = "generate_image_command" /\ authz = "granted"
     /\ Strip(Replace(update.text, CmdImage, <<>>)) = <<>>)
        => /\ ~Made("call")
           /\ api_usage = before.api_usage
           /\ (pc = "done" /\ ~send_lost) => Sent("image_prompt_missing")

\* C10: when /mode from an admitted identity has ended with a name that is no
\* key of CHAT_MODES (or with no name), every user's mode is as it was before,
\* and the user was sent the invalid-mode reply unless the send raised.  The
\* word reset is the one name that is routed to the reset branch instead.
Thm_C10 ==
    (pc = "done" /\ Route(update.text) = "set_mode_command" /\ authz = "granted"
     /\ ~ModeKnown(frame.mode) /\ frame.mode # Some(KwReset))
        => /\ user_data = before.user_data
           /\ ~send_lost => Sent("invalid_mode")

\* a user whose mode is set has sent /mode with an unknown name and got the reply
Witness_C10 ==
    /\ pc = "done" /\ Route(update.text) = "set_mode_command" /\ authz = "granted"
    /\ frame.mode = Some(<<"b", "o", "g", "u", "s">>)
    /\ GetMode(before.user_data[update.user]) = Some(ModeCreative)
    /\ GetMode(user_data[update.user]) = Some(ModeCreative)
    /\ Sent("invalid_mode")

\* C11: when a /mode reset from an admitted identity has ended, that user's
\* mode is unset and no exception left the handler except a failed send of the
\* reply; this holds for a first reset, from a mode that was set or unset, and
\* for a reset that follows a reset.
Thm_C11 ==
    (pc = "done" /\ Route(update.text) = "set_mode_command" /\ authz = "granted"
     /\ frame.mode = Some(KwReset))
        => /\ GetMode(user_data[update.user]) = None
           /\ ~send_lost => (failure = "" /\ Sent("mode_reset"))
           /\ mode_log.calls[update.user][Len(mode_log.calls[update.user])] = "mode_reset"

\* a user set a mode and then reset it twice in a row; both resets were answered
Witness_C11 ==
    /\ pc = "done" /\ Route(update.text) = "set_mode_command" /\ authz = "granted"
    /\ frame.mode = Some(KwReset)
    /\ received = 3
    /\ mode_log.calls[update.user] = <<"mode_set", "mode_reset", "mode_reset">>
    /\ GetMode(before.user_data[update.user]) = None
    /\ GetMode(user_data[update.user]) = None
    /\ failure = "" /\ Sent("mode_reset")

\* a chat-provider request of the running update has read its mode
ModeApplied ==
    /\ frame.api \in {"openai", "anthropic"}
    /\ authz = "granted"
    /\ pc \in {"pm_media", "pm_request", "in_call", "pm_split", "pm_send", "pm_save"}

\* C12 as stated: the mode applied to a request in a chat is the one most
\* recently set by a /mode command in that chat, unset if none was set there
\* or it was reset there since.
CE_C12 == ModeApplied => frame.mode = mode_log.by_chat[update.chat]

\* C12 as amended: the mode is state of the user.  Every user's stored mode is
\* the one that user's own most recent /mode command asked for, in whatever
\* chat (unset if none or a reset since), so a /mode of another user never
\* changes it; and the mode applied to a request is its sender's.
Thm_C12 ==
    /\ \A u \in Users : GetMode(user_data[u]) = mode_log.by_user[u]
    /\ ModeApplied => frame.mode = mode_log.by_user[update.user]

\* two users have set different modes in the same chat, the second after the
\* first, and the first user's request in that chat applies the first's mode
Witness_C12 ==
    /\ ModeApplied /\ pc = "in_call"
    /\ \E v \in Users :
         /\ v # update.user
         /\ mode_log.by_user[v] = Some(ModeBrief)
         /\ mode_log.by_chat[update.chat] = Some(ModeBrief)
    /\ mode_log.by_user[update.user] = Some(ModeCreative)
    /\ frame.mode = Some(ModeCreative)

\* the adapter of the running update has built its request
RequestBuilt ==
    /\ frame.api \in {"openai", "anthropic"}
    /\ authz = "granted"
    /\ pc \in {"in_call", "pm_split", "pm_send", "pm_save", "done"}
    /\ Made("call")

\* C13: when the sender's last /mode command set a known mode m and the
\* sender then makes a text request to a chat provider, the request holds m's
\* instruction ahead of the text: for GPT as a system message before the user
\* message, for Claude at the head of the user message.  When the handler has
\* ended and no send raised, the reply part was sent under the provider's
\* name, the exchange is in table conversations under that name, and an
\* answer of the provider added a row of that provider to api_usage.
Thm_C13 ==
    (RequestBuilt /\ update.attachment = "none"
     /\ ModeKnown(mode_log.by_user[update.user]))
        => LET instruction == CHAT_MODES[mode_log.by_user[update.user][1]]
               named == <<"*">> \o frame.model_name \o SaysSuffix
           IN  /\ frame.api = "openai" =>
                     /\ Len(frame.request) = 2
                     /\ frame.request[1].role = "system"
                     /\ frame.request[1].content = instruction
                     /\ frame.request[2].role = "user"
                     /\ frame.request[2].content = update.text
               /\ frame.api = "anthropic" =>
                     /\ Len(frame.request) = 1
                     /\ frame.request[1].role = "user"
                     /\ frame.request[1].content
                          = instruction \o HumanMarker \o update.text
               /\ (pc = "done" /\ ~send_lost) =>
                     /\ \E k \in 1..Len(outbox) :
                          /\ outbox[k].kind = "part"
                          /\ Contains(outbox[k].body, escape_markdown(named))
                     /\ Len(conversations) = Len(before.conversations) + 1
                     /\ IsPrefix(named, conversations[Len(conversations)].response)
                     /\ Made("result") =>
                          /\ Len(api_usage) = Len(before.api_usage) + 1
                          /\ api_usage[Len(api_usage)].api = frame.api

\* /mode creative, then /gpt hi from the same user: the request went out with
\* the creative instruction first, GPT answered and the reply was delivered
Witness_C13 ==
    /\ RequestBuilt /\ pc = "done" /\ ~send_lost
    /\ frame.api = "openai" /\ Made("result")
    /\ mode_log.calls[update.user] = <<"mode_set">>
    /\ mode_log.by_user[update.user] = Some(ModeCreative)
    /\ frame.request[1].content = InstrCreative
    /\ Sent("part")

\* the parts one after another, nothing in between
Concat(parts) == Join(<<>>, parts)

\* the parts one after another, with a line break after every part but the last
\* that is shorter than max_length
RECURSIVE Rejoin(_, _)
Rejoin(parts, max_length) ==
    IF parts = <<>> THEN <<>>
    ELSE IF Len(parts) = 1 THEN parts[1]
    ELSE parts[1] \o (IF Len(parts[1]) < max_length THEN <<"\n">> ELSE <<>>)
         \o Rejoin(Tail(parts), max_length)

\* C14 as stated: the parts of split_long_message, concatenated in order, are
\* the message, character for character.
CE_C14 == pc = "split_done" => Concat(chunker.parts) = chunker.message

\* C14 as amended: a cut at a line break leaves that line break out, and such a
\* cut ends a part shorter than max_length; the parts concatenated in order,
\* with one line break put back after each part that a line break ended, are
\* the message, character for character.
Thm_C14 ==
    pc = "split_done" => Rejoin(chunker.parts, chunker.max_length) = chunker.message

\* a message was cut once where no line break was in reach and once at a line
\* break, which is missing from the parts
Witness_C14 ==
    /\ pc = "split_done"
    /\ chunker.max_length = 2
    /\ chunker.message = <<"a", "b", "a", "\n", "b">>
    /\ chunker.parts = << <<"a", "b">>, <<"a">>, <<"b">> >>

\* C15: no part returned by split_long_message is longer than max_length.
Thm_C15 ==
    pc = "split_done"
        => \A k \in 1..Len(chunker.parts) : Len(chunker.parts[k]) <= chunker.max_length

\* a message longer than max_length was split, one part is exactly max_length
\* long and the remainder exactly fills the last part
Witness_C15 ==
    /\ pc = "split_done"
    /\ Len(chunker.message) = 2 * chunker.max_length
    /\ Len(chunker.parts) = 2
    /\ \A k \in 1..2 : Len(chunker.parts[k]) = chunker.max_length

SetMin(S) == CHOOSE x \in S : \A y \in S : x <= y

\* the fewest parts of at most max_length characters that a text can be cut
\* into when a cut is either at a line break among the first `window` characters
\* of what remains (the line break is left out, and text follows it), or, only
\* if there is no such line break, after exactly max_length characters
RECURSIVE Fewest(_, _, _)
Fewest(text, max_length, window) ==
    IF Len(text) <= max_length THEN 1
    ELSE LET breaks == {k \in 0..(window - 1) : k + 1 < Len(text) /\ text[k + 1] = "\n"}
         IN  IF breaks = {}
             THEN 1 + Fewest(SubSeq(text, max_length + 1, Len(text)), max_length, window)
             ELSE 1 + SetMin({Fewest(SubSeq(text, k + 2, Len(text)), max_length, window) :
                                k \in breaks})

\* C16 as stated: split_long_message returns the fewest parts within the
\* ceiling that cuts at line breaks, or forced cuts where no line break can be
\* cut at, allow.  A part of max_length characters that a line break follows
\* is within the ceiling, so the line break may be anywhere in the first
\* max_length + 1 characters.
CE_C16 ==
    pc = "split_done"
        => Len(chunker.parts)
             = Fewest(chunker.message, chunker.max_length, chunker.max_length + 1)

\* C16 as amended: split_long_message returns the fewest parts that are possible
\* when every cut is at a line break among the first max_length characters of
\* what remains, or, if there is none, after exactly max_length characters.
Thm_C16 ==
    pc = "split_done"
        => Len(chunker.parts)
             = Fewest(chunker.message, chunker.max_length, chunker.max_length)

\* two line breaks were in reach; the cut at the last one gave two parts where
\* a cut at the first would have given three
Witness_C16 ==
    /\ pc = "split_done"
    /\ chunker.max_length = 3
    /\ chunker.message = <<"a", "\n", "\n", "b", "b">>
    /\ chunker.parts = << <<"a", "\n">>, <<"b", "b">> >>

\* C17: every text handed to the platform for a reply part, label and
\* escaping included, is at most MAX_MESSAGE_LENGTH characters long.
CE_C17 == \A k \in 1..Len(attempts) : Len(attempts[k].text) <= MAX_MESSAGE_LENGTH

\* a text with the backslash before every escaped character taken away
RECURSIVE unescape_range(_, _, _)
unescape_range(text, lo, hi) ==
    IF lo > hi THEN <<>>
    ELSE IF lo = hi
    THEN (IF text[lo] = "\\" /\ lo < Len(text) /\ text[lo + 1] \in EscapeChars
          THEN <<>> ELSE <<text[lo]>>)
    ELSE LET mid == (lo + hi) \div 2
         IN  unescape_range(text, lo, mid) \o unescape_range(text, mid + 1, hi)

Unescape(text) == unescape_range(text, 1, Len(text))

IsFormatted(a) == a.parse_mode = "MarkdownV2"

\* the formatted sends tried so far: one for each part that was handed over
Handed == SelectSeq(attempts, IsFormatted)

\* the text of the k-th part handed over, escaping undone
Plain(k) == Unescape(Handed[k].text)

\* the same without its label
Raw(k) ==
    LET label == PartLabel(k, Len(Handed))
    IN  SubSeq(Plain(k), Len(label) + 1, Len(Plain(k)))

HandedInOrder ==
    \A k \in 1..Len(Handed) :
        /\ Handed[k].part = k
        /\ IsPrefix(PartLabel(k, Len(Handed)), Plain(k))

\* text is the parts in order with nothing but whitespace after each of them
RECURSIVE ApartByWhitespace(_, _)
ApartByWhitespace(parts, text) ==
    IF parts = <<>> THEN LStrip(text) = <<>>
    ELSE /\ IsPrefix(parts[1], text)
         /\ ApartByWhitespace(Tail(parts),
                              LStrip(SubSeq(text, Len(parts[1]) + 1, Len(text))))

\* C18 as stated: when the sending loop of process_message is through, the
\* parts it handed over are labelled 1/N, 2/N, ... N/N in this order, and their
\* texts, labels stripped and escaping undone, concatenated, are the composed
\* reply.
CE_C18 ==
    pc = "pm_save"
        => /\ HandedInOrder
           /\ Concat([k \in 1..Len(Handed) |-> Raw(k)])
                = FullResponse(frame.model_name, frame.response)

\* C18 as amended: the same, but for whitespace at the cuts: the composed reply
\* is the texts of the parts in order with a run of whitespace, possibly empty,
\* after each of them (the line break cut at and the whitespace that followed
\* the cut are in no part).
Thm_C18 ==
    pc = "pm_save"
        => /\ HandedInOrder
           /\ Len(Handed) = Len(frame.parts)
           /\ ApartByWhitespace([k \in 1..Len(Handed) |-> Raw(k)],
                                FullResponse(frame.model_name, frame.response))

\* a reply was cut at a line break that blanks followed, and both parts went out
Witness_C18 ==
    /\ pc = "pm_save"
    /\ Len(Handed) = 2
    /\ Len(Raw(1)) = 13 + 4000
    /\ Raw(2) = Run(200, "b")
    /\ Len(FullResponse(frame.model_name, frame.response)) = 13 + 4000 + 2 + 200

\* C19: a formatted send that raised is followed by the plain-text send of the
\* same part, label and text unescaped; a plain-text send that was accepted is
\* in the outbox; no exception leaves the loop, whatever raised; and the parts
\* are tried in order, each of them, up to the last.
Thm_C19 ==
    /\ \A k \in 1..Len(attempts) :
         LET a == attempts[k]
         IN  /\ (a.parse_mode = "MarkdownV2" /\ ~a.ok) =>
                   /\ k < Len(attempts)
                   /\ attempts[k + 1].parse_mode = ""
                   /\ attempts[k + 1].part = a.part
                   /\ attempts[k + 1].text
                        = PartLabel(a.part, Len(frame.parts)) \o frame.parts[a.part]
             /\ (a.parse_mode = "MarkdownV2" /\ a.ok) =>
                   (k < Len(attempts) => attempts[k + 1].parse_mode = "MarkdownV2")
             /\ (a.parse_mode = "" /\ a.ok) =>
                   \E j \in 1..Len(outbox) : outbox[j] = Msg("part", a.text, "")
    /\ attempts # <<>> =>
         /\ failure = ""
         /\ \A k \in 1..Len(Handed) : Handed[k].part = k
         /\ pc \in {"pm_send", "pm_save", "done"}
         /\ pc = "pm_send" => Len(Handed) = frame.i - 1
         /\ pc \in {"pm_save", "done"} => Len(Handed) = Len(frame.parts)

\* of three parts the first was lost in both forms, the second went out as
\* plain text and the third as formatted text
Witness_C19 ==
    /\ pc = "pm_save"
    /\ Len(frame.parts) = 3
    /\ Len(attempts) = 5
    /\ ~attempts[1].ok /\ ~attempts[2].ok
    /\ ~attempts[3].ok /\ attempts[4].ok
    /\ attempts[5].ok /\ attempts[5].part = 3
    /\ Cardinality({j \in 1..Len(outbox) : outbox[j].kind = "part"}) = 2
    /\ \E j \in 1..Len(outbox) : outbox[j] = Msg("part", attempts[4].text, "")

\* C20: no handler ends with an exception.
CE_C20 == pc = "done" => failure = ""

\* C22: every row of api_usage has a cost: none is stored with cost NULL.
CE_C22 == \A k \in 1..Len(api_usage) : api_usage[k].cost # "NULL"

\* C24: when the handler of an admitted /gpt or /claude has ended after
\* process_message called the provider, one row was added to conversations and
\* every part had been handed over before; whatever the provider and the sends
\* did.
CE_C24 ==
    (pc = "done" /\ authz = "granted" /\ frame.api \in {"openai", "anthropic"}
     /\ Made("call"))
        => /\ Len(conversations) = Len(before.conversations) + 1
           /\ Len(Handed) = Len(frame.parts)

\* the rows of api_usage written for one provider
RowsOf(api) == SelectSeq(api_usage, LAMBDA r : r.api = api)

\* the sum of one column over the first n of some rows
RECURSIVE ColumnSum(_, _, _)
ColumnSum(rows, column, n) ==
    IF n = 0 THEN 0 ELSE ColumnSum(rows, column, n - 1) + rows[n][column]

\* C21: the summary that /balance sends has one entry for each provider that
\* has rows in api_usage, and the entry of provider P holds the sums of the
\* prompt, completion and total tokens of P's rows, and of no other row.
Thm_C21 ==
    \A k \in 1..Len(outbox) :
        outbox[k].kind = "balance" =>
            /\ {e.api : e \in outbox[k].body} = Range(Apis(api_usage))
            /\ \A e \in outbox[k].body :
                 LET rows == RowsOf(e.api)
                 IN  /\ e.prompt_tokens = ColumnSum(rows, "prompt_tokens", Len(rows))
                     /\ e.completion_tokens
                          = ColumnSum(rows, "completion_tokens", Len(rows))
                     /\ e.total_tokens = ColumnSum(rows, "total_tokens", Len(rows))
            /\ Cardinality(outbox[k].body) = Cardinality(Range(Apis(api_usage)))

\* /balance was answered after two image requests of different size and one
\* GPT request: the image entry sums the two, the GPT entry is its one row
Witness_C21 ==
    /\ Sent("balance")
    /\ Len(RowsOf("openai_image")) = 2
    /\ RowsOf("openai_image")[1].total_tokens # RowsOf("openai_image")[2].total_tokens
    /\ Len(RowsOf("openai")) = 1
    /\ \E k \in 1..Len(outbox) :
         /\ [api |-> "openai_image", prompt_tokens |-> 3, completion_tokens |-> 0,
              total_tokens |-> 3] \in outbox[k].body
         /\ [api |-> "openai", prompt_tokens |-> 3, completion_tokens |-> 1,
              total_tokens |-> 4] \in outbox[k].body

\* C23: every turn of either splitting loop that stays in the loop leaves
\* less text to split than it found, also when the only line break in reach
\* is the first character; so each loop comes to its end, and the parts it
\* ends with are those of split_long_message, or of the loop of
\* process_message, for the text given.
Thm_C23 ==
    /\ [][(pc = "loop_while" /\ pc' = "loop_while")
             => Len(chunker'.message) < Len(chunker.message)]_vars
    /\ <>(pc = "loop_done")
    /\ [](pc = "loop_done" =>
            chunker.parts = IF chunker.loop = "split_long_message"
                            THEN split_long_message(chunker.given, chunker.max_length)
                            ELSE SplitResponse(chunker.given, chunker.max_length))

\* split_long_message has ended on a text whose only line break in reach was
\* its first character: the first part is empty and the rest followed
Witness_C23 ==
    /\ pc = "loop_done"
    /\ chunker.loop = "split_long_message"
    /\ chunker.max_length = 2
    /\ chunker.given = <<"\n", "a", "a", "b">>
    /\ chunker.parts = << <<>>, <<"a", "a">>, <<"b">> >>

====
